---- MODULE Spec2Model ----
(***************************************************************************)
(* MemoApp persistence layer: the lazily opened relational store           *)
(* (RdbHelper), the memo table and its data-access object (MemoDao), the   *)
(* Memo entity, and the font-size preferences (PreferencesHelper).         *)
(*                                                                         *)
(* Every async function is a task that moves from one await to the next;   *)
(* one action is the synchronous code between two awaits.  The JS event    *)
(* loop runs one such piece at a time, so actions interleave freely but    *)
(* never overlap.                                                          *)
(*                                                                         *)
(* Encodings: a string that is searched or matched is a sequence of        *)
(* one-character strings; `undefined` is the number -1 (ids and            *)
(* timestamps are positive); `null` for a handle is 0; a Memo | null       *)
(* result is a sequence of length <= 1.                                    *)
(***************************************************************************)
EXTENDS Integers, Sequences, FiniteSets, TLC

\* ------------------------------------------------------------ bounds
NumTasks == 3       \* getRdbStore / preference calls that may be in flight together
MaxRows  == 2       \* rows ever inserted (AUTOINCREMENT never reuses an id)
MaxClock == 2       \* the times Date.now() may read

Tasks == 1 .. NumTasks
DaoTasks == {1}     \* Spec: one caller of MemoDao, one call at a time
ListTasks == {1, 2} \* SpecRoundTrip: two callers that add and list
PrefTasks == {1, 2} \* SpecPref: two callers of PreferencesHelper

\* ------------------------------------------------------------ values
undefined == -1
null == 0

\* Texts a caller passes as (title, content).
NoteTexts ==
    { <<  <<"A", " ">>, ""  >>,
      <<  <<"b", "_">>, "x" >> }

\* Keywords a caller searches for: empty, blank, plain, the two LIKE wildcards.
Keywords == { <<>>, <<" ">>, <<"a">>, <<"_">>, <<"%">> }

\* What the search field gives searchMemos: untrimmed keywords.
SearchInputs == { <<>>, <<" ">>, <<" ", "a">>, <<"b", " ">> }

Times == 1 .. MaxClock
AnyTime == CHOOSE t \in Times : TRUE

\* PreferencesHelper's keys and defaults, and the sizes a caller saves.
KEY_TITLE_FONT_SIZE == "title_font_size"
KEY_CONTENT_FONT_SIZE == "content_font_size"
DEFAULT_TITLE_FONT_SIZE == 18
DEFAULT_CONTENT_FONT_SIZE == 14
FontSizes == {16, 22}

\* The optional constructor arguments (id, createdDate, modifiedDate) a caller of
\* addMemo gives: none (a new note), an id, or both dates.
NoCtorArgs == <<undefined, undefined, undefined>>
AddCtorArgs == { NoCtorArgs,
                 <<1, undefined, undefined>>,
                 <<undefined, MaxClock, 1>> }
Ids == 1 .. (MaxRows + 1)

\* What a call gave its caller: nothing yet, a value, or a raised error.
NoResult == [kind |-> "none", num |-> 0, memos |-> <<>>, sizes |-> <<>>]
Number(n) == [kind |-> "ok", num |-> n, memos |-> <<>>, sizes |-> <<>>]
Memos(s) == [kind |-> "ok", num |-> 0, memos |-> s, sizes |-> <<>>]
Sizes(titleSize, contentSize) ==
    [kind |-> "ok", num |-> 0, memos |-> <<>>, sizes |-> <<titleSize, contentSize>>]
Void == [kind |-> "ok", num |-> 0, memos |-> <<>>, sizes |-> <<>>]
Raised == [kind |-> "raised", num |-> 0, memos |-> <<>>, sizes |-> <<>>]

NoArg == [none |-> TRUE]
NoAdd == [id |-> 0]

VARIABLES
    rdbStore,       \* RdbHelper.rdbStore: null or the memoized handle
    tableExists,    \* the memo table has been created (onCreate ran)
    table,          \* the rows of table memo
    nextId,         \* the id AUTOINCREMENT gives the next inserted row
    pc,             \* per task: idle, opening, stmt, closing, done
    op,             \* per task: the function it runs
    arg,            \* per task: that function's arguments and locals
    store,          \* per task: the handle its getRdbStore call returned
    ret,            \* per task: what the function gave its caller
    fault,          \* per task: the steps of the platform that failed under it
    returnedHandle, \* the first handle any getRdbStore call returned (null: none yet)
    seenAtStart,    \* per task: returnedHandle when its getRdbStore call started
    lastAdd,        \* the last insert, while no later statement has changed the table
    prefInstance,   \* PreferencesHelper.prefInstance: null or the memoized handle
    prefMem,        \* the preference file's values as put and get see them
    prefFile,       \* the values last flushed to the file
    prefs,          \* per task: the handle its getPreferences call returned
    resultSet,      \* per task: the ResultSet its query obtained: none, open, closed
    overwritten,    \* per task: another caller's put changed the values during its call
    vm,             \* per MemoViewModel instance: its fields
    vop,            \* per task: the MemoViewModel method it runs
    vpc,            \* per task: where that method stands
    vview,          \* per task: the instance the method was called on
    vloc,           \* per task: that method's locals
    vret            \* per task: what the method gave its caller

vars == << rdbStore, tableExists, table, nextId, pc, op, arg, store,
           ret, fault, returnedHandle, seenAtStart, lastAdd,
           prefInstance, prefMem, prefFile, prefs, resultSet,
           overwritten, vm, vop, vpc, vview, vloc, vret >>

viewVars == << vm, vop, vpc, vview, vloc, vret >>

prefVars == << prefInstance, prefMem, prefFile, prefs, overwritten >>
rdbVars == << rdbStore, returnedHandle, store, seenAtStart >>

dbVars == << tableExists, table, nextId, lastAdd >>

\* ------------------------------------------------------------ Memo
\* A constructor that reads the clock once per date: the second reading is later.
MemoCtorTwoReads(title, content, id, createdDate, modifiedDate, t) ==
    [ id           |-> id,
      title        |-> title,
      content      |-> content,
      createdDate  |-> IF createdDate = undefined THEN t ELSE createdDate,
      modifiedDate |-> IF modifiedDate = undefined THEN t + 1 ELSE modifiedDate ]

\* new Memo(title, content, id?, createdDate?, modifiedDate?), where Date.now()
\* reads t.
MemoCtor(title, content, id, createdDate, modifiedDate, t) ==
    [ id           |-> id,
      title        |-> title,
      content      |-> content,
      createdDate  |-> IF createdDate = undefined THEN t ELSE createdDate,
      modifiedDate |-> IF modifiedDate = undefined THEN t ELSE modifiedDate ]

\* ------------------------------------------------------------ the store
\* SQLite's LIKE: % matches any run of characters, _ any one character, and
\* ASCII letters match without regard to case.
Lower(c) == IF c = "A" THEN "a" ELSE IF c = "B" THEN "b" ELSE c

RECURSIVE LikeMatch(_, _)
LikeMatch(p, s) ==
    IF p = <<>> THEN s = <<>>
    ELSE IF Head(p) = "%"
        THEN LikeMatch(Tail(p), s) \/ (s # <<>> /\ LikeMatch(p, Tail(s)))
    ELSE IF Head(p) = "_"
        THEN s # <<>> /\ LikeMatch(Tail(p), Tail(s))
    ELSE s # <<>> /\ Lower(Head(p)) = Lower(Head(s)) /\ LikeMatch(Tail(p), Tail(s))

\* RdbPredicates: one condition and an optional order.
Selects(pred, r) ==
    CASE pred.cond = "none"    -> TRUE
      [] pred.cond = "like"    -> LikeMatch(pred.pattern, r.title)
      [] pred.cond = "equalTo" -> r.id = pred.id

Selected(pred, tbl) == { r \in tbl : Selects(pred, r) }

\* The orders in which store.query may deliver the selected rows: ORDER BY
\* modified_date DESC fixes the order of rows with different dates only; SQL
\* leaves the order of rows with equal keys to the engine.
ResultSets(pred, tbl) ==
    LET rows == Selected(pred, tbl)
        n == Cardinality(rows)
    IN  { s \in [1 .. n -> rows] :
            /\ \A i, j \in 1 .. n : i # j => s[i] # s[j]
            /\ pred.orderByDesc = "modified_date" =>
                 \A i, j \in 1 .. n : i < j => s[i].modified_date >= s[j].modified_date }

\* ------------------------------------------------------------ RdbHelper
\* Every open resolves with a new RdbStore object.  Objects are told apart by
\* identity only, so a new one takes the least number no live reference holds.
LiveHandles == { rdbStore, returnedHandle } \cup { store[u] : u \in Tasks }
NewHandle == CHOOSE h \in 1 .. (NumTasks + 3) :
                 /\ h \notin LiveHandles
                 /\ \A k \in 1 .. (h - 1) : k \in LiveHandles

\* The tail of getRdbStore, `return this.rdbStore!`, and the caller's code up to
\* its next await: a direct call is finished, a MemoDao function builds its
\* statement (updateMemo reads the clock, Date.now(), for modified_date) and
\* issues it.  The clock is wall-clock time: a reading is any time.
HandleReady(t, o, a, h) ==
    /\ store' = [store EXCEPT ![t] = h]
    /\ returnedHandle' = IF returnedHandle = null THEN h ELSE returnedHandle
    /\ \E stamp \in Times :
         arg' = [arg EXCEPT ![t] = IF o = "updateMemo" THEN [a EXCEPT !.stamp = stamp] ELSE a]
    /\ IF o = "getRdbStore"
         THEN /\ pc' = [pc EXCEPT ![t] = "done"]
              /\ ret' = [ret EXCEPT ![t] = Number(h)]
         ELSE /\ pc' = [pc EXCEPT ![t] = "stmt"]
              /\ ret' = [ret EXCEPT ![t] = NoResult]

\* getRdbStore up to its await, for the function o that task t now runs (the
\* locals of what t ran before are gone): with no memoized handle it calls
\* relationalStore.getRdbStore and waits; otherwise it returns the memoized one.
EnterGetRdbStore(t, o, a) ==
    /\ op' = [op EXCEPT ![t] = o]
    /\ fault' = [fault EXCEPT ![t] = {}]
    /\ seenAtStart' = [seenAtStart EXCEPT ![t] = returnedHandle]
    /\ resultSet' = [resultSet EXCEPT ![t] = "none"]
    /\ IF rdbStore = null
         THEN /\ pc' = [pc EXCEPT ![t] = "opening"]
              /\ arg' = [arg EXCEPT ![t] = a]
              /\ store' = [store EXCEPT ![t] = null]
              /\ ret' = [ret EXCEPT ![t] = NoResult]
              /\ UNCHANGED returnedHandle
         ELSE HandleReady(t, o, a, rdbStore)
    /\ UNCHANGED rdbStore
    /\ UNCHANGED dbVars
    /\ UNCHANGED prefVars

\* A call by a caller that runs nothing else.
GetRdbStore(t, o, a) ==
    /\ pc[t] = "idle"
    /\ EnterGetRdbStore(t, o, a)
    /\ UNCHANGED viewVars

\* rdbHelper.getRdbStore(context) called directly.
CallGetRdbStore(t) == GetRdbStore(t, "getRdbStore", NoArg)

\* The awaited open resolves: onCreate creates the table in a new database, the
\* handle, a new object, is memoized and returned.
OpenSucceeds(t) ==
    /\ pc[t] = "opening"
    /\ rdbStore' = NewHandle
    /\ HandleReady(t, op[t], arg[t], NewHandle)
    /\ tableExists' = TRUE
    /\ UNCHANGED << table, nextId, lastAdd, op, fault, seenAtStart, resultSet >>
    /\ UNCHANGED prefVars
    /\ UNCHANGED viewVars

\* The awaited open rejects: the catch logs and throws a new Error, which no
\* MemoDao function catches (its getRdbStore call stands before its try).
OpenFails(t) ==
    /\ pc[t] = "opening"
    /\ pc' = [pc EXCEPT ![t] = "done"]
    /\ ret' = [ret EXCEPT ![t] = Raised]
    /\ fault' = [fault EXCEPT ![t] = {"open"}]
    /\ UNCHANGED << rdbStore, returnedHandle, op, arg, store, seenAtStart, resultSet >>
    /\ UNCHANGED dbVars
    /\ UNCHANGED prefVars
    /\ UNCHANGED viewVars

\* The caller has taken the result of what task t ran: its locals are gone.
LeaveFrame(t) ==
    /\ pc' = [pc EXCEPT ![t] = "idle"]
    /\ op' = [op EXCEPT ![t] = "none"]
    /\ arg' = [arg EXCEPT ![t] = NoArg]
    /\ store' = [store EXCEPT ![t] = null]
    /\ ret' = [ret EXCEPT ![t] = NoResult]
    /\ fault' = [fault EXCEPT ![t] = {}]
    /\ seenAtStart' = [seenAtStart EXCEPT ![t] = null]
    /\ prefs' = [prefs EXCEPT ![t] = null]
    /\ resultSet' = [resultSet EXCEPT ![t] = "none"]
    /\ overwritten' = [overwritten EXCEPT ![t] = FALSE]
    /\ UNCHANGED << rdbStore, returnedHandle, prefInstance, prefMem, prefFile >>
    /\ UNCHANGED dbVars

\* The caller takes the result; the task is free for the next call.
Return(t) ==
    /\ pc[t] = "done"
    /\ LeaveFrame(t)
    /\ UNCHANGED viewVars

\* ------------------------------------------------------------ PreferencesHelper
\* Every open resolves with a new Preferences object over the one file.
LivePrefs == { prefInstance } \cup { prefs[u] : u \in Tasks }
NewPrefs == CHOOSE h \in 1 .. (NumTasks + 2) :
                /\ h \notin LivePrefs
                /\ \A k \in 1 .. (h - 1) : k \in LivePrefs

\* prefs.put(key, value) on the values m.
Put(m, key, value) ==
    [ k \in DOMAIN m \cup {key} |-> IF k = key THEN value ELSE m[k] ]

\* A get that never finds the key.
GetDefault(m, key, defValue) == defValue

\* prefs.get(key, defValue) on the values m.
Get(m, key, defValue) == IF key \in DOMAIN m THEN m[key] ELSE defValue

\* The tail of getPreferences, `return this.prefInstance!`, and the caller's
\* first put or get, issued.
PrefsReady(t, o, h) ==
    /\ prefs' = [prefs EXCEPT ![t] = h]
    /\ pc' = [pc EXCEPT ![t] = IF o = "saveFontSizes" THEN "putTitle" ELSE "getTitle"]

\* getPreferences up to its await: with no memoized handle it calls
\* preferences.getPreferences and waits; otherwise it returns the memoized one.
EnterGetPreferences(t, o, a) ==
    /\ pc[t] = "idle"
    /\ op' = [op EXCEPT ![t] = o]
    /\ arg' = [arg EXCEPT ![t] = a]
    /\ fault' = [fault EXCEPT ![t] = {}]
    /\ overwritten' = [overwritten EXCEPT ![t] = FALSE]
    /\ IF prefInstance = null
         THEN /\ pc' = [pc EXCEPT ![t] = "prefOpening"]
              /\ UNCHANGED prefs
         ELSE PrefsReady(t, o, prefInstance)
    /\ UNCHANGED << prefInstance, prefMem, prefFile, ret, resultSet >>
    /\ UNCHANGED rdbVars
    /\ UNCHANGED dbVars

\* A call by a caller that runs nothing else.
GetPreferences(t, o, a) == EnterGetPreferences(t, o, a) /\ UNCHANGED viewVars

\* The pair a loadFontSizes gives when nothing fails, on the values as they
\* are now.
Readable ==
    << Get(prefMem, KEY_TITLE_FONT_SIZE, DEFAULT_TITLE_FONT_SIZE),
       Get(prefMem, KEY_CONTENT_FONT_SIZE, DEFAULT_CONTENT_FONT_SIZE) >>

\* preferencesHelper.saveFontSizes(context, titleSize, contentSize).
CallSaveFontSizes(t) ==
    \E ts \in FontSizes, cs \in FontSizes :
        GetPreferences(t, "saveFontSizes", [titleSize |-> ts, contentSize |-> cs])

\* The same call, with what readers get when it starts kept as `before`, for
\* comparison at its end.
CallSaveFontSizesNoting(t) ==
    \E ts \in FontSizes, cs \in FontSizes :
        GetPreferences(t, "saveFontSizes",
                       [titleSize |-> ts, contentSize |-> cs, before |-> Readable])

\* preferencesHelper.loadFontSizes(context): both locals start at the defaults.
CallLoadFontSizes(t) ==
    GetPreferences(t, "loadFontSizes",
                   [titleSize |-> DEFAULT_TITLE_FONT_SIZE, contentSize |-> DEFAULT_CONTENT_FONT_SIZE])

\* The awaited open of the preference file resolves.
PrefOpenSucceeds(t) ==
    /\ pc[t] = "prefOpening"
    /\ prefInstance' = NewPrefs
    /\ PrefsReady(t, op[t], NewPrefs)
    /\ UNCHANGED << prefMem, prefFile, op, arg, ret, fault, resultSet, overwritten >>
    /\ UNCHANGED rdbVars
    /\ UNCHANGED dbVars
    /\ UNCHANGED viewVars

\* A catch that hands the error on to the caller.
FontResultRaised(t, a) == Raised

\* What saveFontSizes and loadFontSizes give their caller from their catch and
\* from their end: nothing, and the two locals.
FontResult(t, a) ==
    IF op[t] = "saveFontSizes" THEN Void ELSE Sizes(a.titleSize, a.contentSize)

\* A step of the preference file fails under task t: getPreferences rethrows an
\* open's error; the caller's catch logs it and the function ends.
PrefFails(t, step) ==
    /\ pc' = [pc EXCEPT ![t] = "done"]
    /\ ret' = [ret EXCEPT ![t] = FontResult(t, arg[t])]
    /\ fault' = [fault EXCEPT ![t] = {step}]
    /\ UNCHANGED << prefInstance, prefMem, prefFile, prefs, op, arg, resultSet, overwritten >>
    /\ UNCHANGED rdbVars
    /\ UNCHANGED dbVars
    /\ UNCHANGED viewVars

PrefOpenFails(t) == pc[t] = "prefOpening" /\ PrefFails(t, "open")

\* A step of the preference file succeeds under task t, leaving the values m,
\* the file f and the locals a; the task goes on at p.
PrefStep(t, p, m, f, a) ==
    /\ pc' = [pc EXCEPT ![t] = p]
    /\ prefMem' = m
    /\ prefFile' = f
    /\ overwritten' = [ u \in Tasks |->
                          overwritten[u] \/ (u # t /\ pc[u] # "idle" /\ m # prefMem) ]
    /\ arg' = [arg EXCEPT ![t] = a]
    /\ ret' = [ret EXCEPT ![t] = IF p = "done" THEN FontResult(t, a) ELSE ret[t]]
    /\ UNCHANGED << prefInstance, prefs, op, fault, resultSet >>
    /\ UNCHANGED rdbVars
    /\ UNCHANGED dbVars
    /\ UNCHANGED viewVars

\* await prefs.put(KEY_TITLE_FONT_SIZE, titleSize) settles.
PutTitle(t) ==
    /\ pc[t] = "putTitle"
    /\ \/ PrefStep(t, "putContent", Put(prefMem, KEY_TITLE_FONT_SIZE, arg[t].titleSize),
                   prefFile, arg[t])
       \/ PrefFails(t, "putTitle")

\* await prefs.put(KEY_CONTENT_FONT_SIZE, contentSize) settles.
PutContent(t) ==
    /\ pc[t] = "putContent"
    /\ \/ PrefStep(t, "flush", Put(prefMem, KEY_CONTENT_FONT_SIZE, arg[t].contentSize),
                   prefFile, arg[t])
       \/ PrefFails(t, "putContent")

\* await prefs.flush() settles.
Flush(t) ==
    /\ pc[t] = "flush"
    /\ \/ PrefStep(t, "done", prefMem, prefMem, arg[t])
       \/ PrefFails(t, "flush")

\* titleSize = await prefs.get(KEY_TITLE_FONT_SIZE, DEFAULT_TITLE_FONT_SIZE) settles.
GetTitle(t) ==
    /\ pc[t] = "getTitle"
    /\ \/ PrefStep(t, "getContent", prefMem, prefFile,
                   [arg[t] EXCEPT !.titleSize =
                        Get(prefMem, KEY_TITLE_FONT_SIZE, DEFAULT_TITLE_FONT_SIZE)])
       \/ PrefFails(t, "getTitle")

\* contentSize = await prefs.get(KEY_CONTENT_FONT_SIZE, DEFAULT_CONTENT_FONT_SIZE) settles.
GetContent(t) ==
    /\ pc[t] = "getContent"
    /\ \/ PrefStep(t, "done", prefMem, prefFile,
                   [arg[t] EXCEPT !.contentSize =
                        Get(prefMem, KEY_CONTENT_FONT_SIZE, DEFAULT_CONTENT_FONT_SIZE)])
       \/ PrefFails(t, "getContent")

\* ------------------------------------------------------------ MemoViewModel: values
\* The instances: the list page and the edit page each make one.
Views == {1, 2}

\* A MemoViewModel as constructed; context is whether initialize has bound one,
\* currentMemo is a sequence of length <= 1 (empty: null).
NewMemoViewModel ==
    [ memos           |-> <<>>,
      titleFontSize   |-> 18,
      contentFontSize |-> 14,
      isLoading       |-> FALSE,
      searchKeyword   |-> <<>>,
      currentMemo     |-> <<>>,
      context         |-> FALSE ]

\* The locals of a MemoViewModel method: success, the title and content being
\* saved, the id being written (0: not known), the keyword given to searchMemos.
NoLocals == [success |-> FALSE, title |-> <<>>, content |-> "", id |-> 0,
             keyword |-> <<>>]

\* String.prototype.trim(): leading and trailing white space removed.
RECURSIVE TrimStart(_)
TrimStart(s) == IF s # <<>> /\ Head(s) = " " THEN TrimStart(Tail(s)) ELSE s

RECURSIVE TrimEnd(_)
TrimEnd(s) ==
    IF s # <<>> /\ s[Len(s)] = " " THEN TrimEnd(SubSeq(s, 1, Len(s) - 1)) ELSE s

\* A trim that leaves the string as it is.
NoTrim(s) == s

Trim(s) == TrimEnd(TrimStart(s))

Init ==
    /\ rdbStore = null
    /\ tableExists = FALSE
    /\ table = {}
    /\ nextId = 1
    /\ pc = [t \in Tasks |-> "idle"]
    /\ op = [t \in Tasks |-> "none"]
    /\ arg = [t \in Tasks |-> NoArg]
    /\ store = [t \in Tasks |-> null]
    /\ ret = [t \in Tasks |-> NoResult]
    /\ fault = [t \in Tasks |-> {}]
    /\ returnedHandle = null
    /\ seenAtStart = [t \in Tasks |-> null]
    /\ lastAdd = NoAdd
    /\ prefInstance = null
    /\ prefMem = <<>>
    /\ prefFile = <<>>
    /\ prefs = [t \in Tasks |-> null]
    /\ resultSet = [t \in Tasks |-> "none"]
    /\ overwritten = [t \in Tasks |-> FALSE]
    /\ vm = [v \in Views |-> NewMemoViewModel]
    /\ vop = [t \in Tasks |-> "none"]
    /\ vpc = [t \in Tasks |-> "idle"]
    /\ vview = [t \in Tasks |-> 0]
    /\ vloc = [t \in Tasks |-> NoLocals]
    /\ vret = [t \in Tasks |-> "none"]

\* ------------------------------------------------------------ MemoDao
\* A ValuesBucket that carries the id of the memo as well.
AddMemoBucketWithId(memo) ==
    [ id            |-> memo.id,
      title         |-> memo.title,
      content       |-> memo.content,
      created_date  |-> memo.createdDate,
      modified_date |-> memo.modifiedDate ]

\* addMemo's ValuesBucket: the id of the memo is left out.
AddMemoBucket(memo) ==
    [ title         |-> memo.title,
      content       |-> memo.content,
      created_date  |-> memo.createdDate,
      modified_date |-> memo.modifiedDate ]

\* The id store.insert gives the row of a bucket: the id column is INTEGER
\* PRIMARY KEY AUTOINCREMENT, so a bucket that names no id gets one above
\* every id ever used (next), and a bucket that names one gets that.
RowId(bucket, next) ==
    IF "id" \in DOMAIN bucket /\ bucket.id # undefined THEN bucket.id ELSE next

\* The row store.insert writes for a bucket.
InsertedRow(bucket, id) ==
    [ id            |-> id,
      title         |-> bucket.title,
      content       |-> bucket.content,
      created_date  |-> bucket.created_date,
      modified_date |-> bucket.modified_date ]

\* queryAllMemos: every row, ordered by modified_date descending.
QueryAllMemosPredicates == [cond |-> "none", orderByDesc |-> "modified_date"]

\* queryMemosByTitle: a falsy keyword goes to queryAllMemos; any other is
\* wrapped in % and matched with LIKE against the title.
QueryMemosByTitlePredicates(keyword) ==
    IF keyword = <<>>
      THEN QueryAllMemosPredicates
      ELSE [ cond |-> "like", pattern |-> <<"%">> \o keyword \o <<"%">>,
             orderByDesc |-> "modified_date" ]

\* Predicates that lost their equalTo condition: they select every row.
EqualToNothingPredicates(id) == [cond |-> "none", id |-> id, orderByDesc |-> "none"]

\* queryMemoById, updateMemo, deleteMemo: the row with the id, unordered.
EqualToIdPredicates(id) == [cond |-> "equalTo", id |-> id, orderByDesc |-> "none"]

\* updateMemo's ValuesBucket: title, content and the clock reading; not the
\* memo's own dates.
UpdateMemoBucket(memo, stamp) ==
    [ title |-> memo.title, content |-> memo.content, modified_date |-> stamp ]

\* store.update: the bucket's columns written into every selected row.
UpdatedTable(bucket, pred, tbl) ==
    { IF Selects(pred, r)
        THEN [r EXCEPT !.title = bucket.title, !.content = bucket.content,
                       !.modified_date = bucket.modified_date]
        ELSE r : r \in tbl }

\* One row of a ResultSet read into a Memo (getLong/getString, new Memo(...)).
\* Both dates are given, so the constructor's own clock reading is not used.
DecodeRow(r) == MemoCtor(r.title, r.content, r.id, r.created_date, r.modified_date, AnyTime)

\* parseResultSet over the delivered rows rs, where reading row k throws (k = 0:
\* no row throws): the catch keeps the memos pushed before the throw.
ParseResultSet(rs, k) ==
    [ i \in 1 .. (IF k = 0 THEN Len(rs) ELSE k - 1) |-> DecodeRow(rs[i]) ]

\* The faults of one query: decoding a row, closing the ResultSet.
ReadFaults(k, closeFails) ==
    (IF k > 0 THEN {"decode"} ELSE {}) \cup (IF closeFails THEN {"close"} ELSE {})

\* What the catch blocks of MemoDao return: [] from queryAllMemos and
\* queryMemosByTitle, null from queryMemoById, -1 from addMemo, 0 from
\* updateMemo and deleteMemo.
QueryCatchRethrows == Raised     \* a catch that throws again
QueryCatch == Memos(<<>>)
QueryByIdCatch == Memos(<<>>)
InsertCatchZero == Number(0)     \* a catch that returns 0, as the other writes do
InsertCatch == Number(-1)
UpdateCatchMinusOne == Number(-1)     \* a catch that returns -1, as addMemo's does
UpdateCatch == Number(0)
DeleteCatch == Number(0)

\* A MemoDao function goes on at p with the result r in hand: at "done" its
\* promise settles with r; at "closing" it awaits the close of its ResultSet.
Proceed(t, p, r, f, c) ==
    /\ pc' = [pc EXCEPT ![t] = p]
    /\ ret' = [ret EXCEPT ![t] = r]
    /\ fault' = [fault EXCEPT ![t] = f]
    /\ resultSet' = [resultSet EXCEPT ![t] = c]
    /\ UNCHANGED << rdbStore, returnedHandle, op, arg, store, seenAtStart >>
    /\ UNCHANGED prefVars
    /\ UNCHANGED viewVars

\* A MemoDao function ends: its promise settles with r.
Finish(t, r, f) == Proceed(t, "done", r, f, resultSet[t])

\* parseResultSet's finally: resultSet.close() is called whether or not reading
\* row k threw (k = 0: no row threw).
CloseOnlyAfterCleanRead(k) == k = 0     \* a close at the end of the try block
ClosesAfter(k) == TRUE

\* queryMemoById's finally: resultSet.close() is called on the ResultSet the
\* query gave, whether or not reading its row threw.
ByIdClosesAfter(k) == TRUE

\* A query has given a ResultSet and its rows have been read into r, row k
\* throwing: with the close called the function awaits it; without, it ends
\* and the ResultSet stays open.
RowsRead(t, r, k, closes) ==
    IF closes
      THEN Proceed(t, "closing", r, ReadFaults(k, FALSE), "closed")
      ELSE Proceed(t, "done", r, ReadFaults(k, FALSE), "open")

\* await resultSet.close() settles: a rejection is caught and logged, and the
\* function returns what it read.
CloseSettles(t) ==
    /\ pc[t] = "closing"
    /\ \E closeFails \in BOOLEAN :
         Proceed(t, "done", ret[t], fault[t] \cup ReadFaults(0, closeFails), resultSet[t])
    /\ UNCHANGED dbVars

\* memoDao.addMemo(context, memo), to its await of getRdbStore.
AddMemo(t, c) ==
    /\ nextId + Cardinality({ u \in Tasks : u # t /\ op[u] = "addMemo" /\ pc[u] # "done" }) <= MaxRows
    /\ \E txt \in NoteTexts, time \in Times :
         GetRdbStore(t, "addMemo",
                     [ memo  |-> MemoCtor(txt[1], txt[2], c[1], c[2], c[3], time),
                       plain |-> c = NoCtorArgs ])

CallAddMemo(t) == \E c \in AddCtorArgs : AddMemo(t, c)

\* addMemo given new Memo(title, content), as saveCurrentMemo gives it.
CallAddNewMemo(t) == AddMemo(t, NoCtorArgs)

\* store.insert settles: the row id, or the catch's -1 (a row whose id is
\* taken cannot be written: the statement fails).
ExecInsert(t) ==
    /\ pc[t] = "stmt" /\ op[t] = "addMemo"
    /\ \/ LET bucket == AddMemoBucket(arg[t].memo)
              id == RowId(bucket, nextId)
          IN  /\ \A r \in table : r.id # id          \* PRIMARY KEY
              /\ table' = table \cup { InsertedRow(bucket, id) }
              /\ nextId' = IF id >= nextId THEN id + 1 ELSE nextId
              /\ lastAdd' = [ id |-> id, title |-> arg[t].memo.title,
                              content |-> arg[t].memo.content, plain |-> arg[t].plain ]
              /\ Finish(t, Number(id), {})
              /\ UNCHANGED tableExists
       \/ /\ Finish(t, InsertCatch, {"stmt"})
          /\ UNCHANGED dbVars

\* memoDao.queryAllMemos(context), to its await of getRdbStore.
CallQueryAllMemos(t) == GetRdbStore(t, "queryAllMemos", NoArg)

\* memoDao.queryMemosByTitle(context, keyword), to its await of getRdbStore
\* (its own, or that of the queryAllMemos it returns).
CallQueryMemosByTitle(t) ==
    \E k \in Keywords : GetRdbStore(t, "queryMemosByTitle", [keyword |-> k])

\* store.query settles: a rejected query gives [] (the catch); otherwise
\* parseResultSet reads the rows and calls the ResultSet's close.
ExecQuery(t) ==
    /\ pc[t] = "stmt" /\ op[t] \in {"queryAllMemos", "queryMemosByTitle"}
    /\ LET pred == IF op[t] = "queryAllMemos"
                     THEN QueryAllMemosPredicates
                     ELSE QueryMemosByTitlePredicates(arg[t].keyword)
       IN  \/ Finish(t, QueryCatch, {"query"})
           \/ \E rs \in ResultSets(pred, table), k \in 0 .. MaxRows :
                /\ k <= Len(rs)
                /\ RowsRead(t, Memos(ParseResultSet(rs, k)), k, ClosesAfter(k))
    /\ UNCHANGED dbVars

\* memoDao.queryMemoById(context, id), to its await of getRdbStore.
CallQueryMemoById(t) ==
    \E id \in Ids : GetRdbStore(t, "queryMemoById", [id |-> id])

\* store.query settles in queryMemoById: null for a rejected query, for no row,
\* and for a row whose reading throws; the finally calls the ResultSet's close.
ExecQueryById(t) ==
    /\ pc[t] = "stmt" /\ op[t] = "queryMemoById"
    /\ \/ Finish(t, QueryByIdCatch, {"query"})
       \/ \E rs \in ResultSets(EqualToIdPredicates(arg[t].id), table), k \in 0 .. 1 :
            /\ k <= Len(rs)
            /\ RowsRead(t, Memos(IF Len(rs) > 0 /\ k = 0 THEN << DecodeRow(rs[1]) >> ELSE <<>>),
                        k, ByIdClosesAfter(k))
    /\ UNCHANGED dbVars

\* A test of the id that lets every memo through.
IdIsNeverUndefined(memo) == FALSE

\* updateMemo's first test: `if (memo.id === undefined)`.
IdIsUndefined(memo) == memo.id = undefined

\* memoDao.updateMemo(context, memo): without an id it returns 0 at once;
\* otherwise it runs to its await of getRdbStore.
CallUpdateMemo(t) ==
    \E txt \in NoteTexts, id \in Ids \cup {undefined} :
        LET memo == MemoCtor(txt[1], txt[2], id, 1, 1, AnyTime)
        IN  IF IdIsUndefined(memo)
              THEN /\ pc[t] = "idle"
                   /\ pc' = [pc EXCEPT ![t] = "done"]
                   /\ op' = [op EXCEPT ![t] = "updateMemo"]
                   /\ arg' = [arg EXCEPT ![t] = [memo |-> memo, stamp |-> undefined]]
                   /\ ret' = [ret EXCEPT ![t] = Number(0)]
                   /\ fault' = [fault EXCEPT ![t] = {}]
                   /\ UNCHANGED << rdbStore, returnedHandle, store, seenAtStart, resultSet >>
                   /\ UNCHANGED dbVars
                   /\ UNCHANGED prefVars
                   /\ UNCHANGED viewVars
              ELSE GetRdbStore(t, "updateMemo", [memo |-> memo, stamp |-> undefined])

\* store.update settles: the number of rows changed, or the catch's 0.
ExecUpdate(t) ==
    /\ pc[t] = "stmt" /\ op[t] = "updateMemo"
    /\ LET pred == EqualToIdPredicates(arg[t].memo.id)
           n == Cardinality(Selected(pred, table))
       IN  \/ /\ table' = UpdatedTable(UpdateMemoBucket(arg[t].memo, arg[t].stamp), pred, table)
              /\ lastAdd' = IF n > 0 THEN NoAdd ELSE lastAdd
              /\ Finish(t, Number(n), {})
              /\ UNCHANGED << tableExists, nextId >>
           \/ /\ Finish(t, UpdateCatch, {"stmt"})
              /\ UNCHANGED dbVars

\* memoDao.deleteMemo(context, id), to its await of getRdbStore.
CallDeleteMemo(t) ==
    \E id \in Ids : GetRdbStore(t, "deleteMemo", [id |-> id])

\* store.delete settles: the number of rows deleted, or the catch's 0.
ExecDelete(t) ==
    /\ pc[t] = "stmt" /\ op[t] = "deleteMemo"
    /\ LET pred == EqualToIdPredicates(arg[t].id)
           n == Cardinality(Selected(pred, table))
       IN  \/ /\ table' = table \ Selected(pred, table)
              /\ lastAdd' = IF n > 0 THEN NoAdd ELSE lastAdd
              /\ Finish(t, Number(n), {})
              /\ UNCHANGED << tableExists, nextId >>
           \/ /\ Finish(t, DeleteCatch, {"stmt"})
              /\ UNCHANGED dbVars


\* ------------------------------------------------------------ MemoViewModel
\* Everything but the view models and their methods.
progVars == << rdbStore, tableExists, table, nextId, pc, op, arg, store,
               ret, fault, returnedHandle, seenAtStart, lastAdd,
               prefInstance, prefMem, prefFile, prefs, resultSet, overwritten >>

\* initialize(context).
Initialize(v) ==
    /\ ~vm[v].context
    /\ vm' = [vm EXCEPT ![v].context = TRUE]
    /\ UNCHANGED << vop, vpc, vview, vloc, vret >>
    /\ UNCHANGED progVars

\* prepareNewMemo().
PrepareNewMemo(v) ==
    /\ vm[v].currentMemo # <<>>
    /\ vm' = [vm EXCEPT ![v].currentMemo = <<>>]
    /\ UNCHANGED << vop, vpc, vview, vloc, vret >>
    /\ UNCHANGED progVars

\* A method whose test of the context never finds it missing.
NeverUnbound(v) == FALSE

\* The test every method starts with: `if (!this.context)`.
Unbound(v) == ~vm[v].context

\* Task t, free, calls method o on instance v.
Called(t, v, o) ==
    /\ vpc[t] = "idle" /\ pc[t] = "idle"
    /\ vop' = [vop EXCEPT ![t] = o]
    /\ vview' = [vview EXCEPT ![t] = v]

\* The method returns r to its caller (a promise that settles with r).
ViewReturns(t, r) ==
    /\ vpc' = [vpc EXCEPT ![t] = "vdone"]
    /\ vret' = [vret EXCEPT ![t] = r]

\* Without a context the method logs an error and returns r at once.
ReturnsAtOnce(t, r) ==
    /\ ViewReturns(t, r)
    /\ UNCHANGED << vm, vloc >>
    /\ UNCHANGED progVars

\* A view model whose fields are one object that every instance shares: the
\* assignments of searchMemos reach every instance.
EnterSearchMemosShared(t, v, w, keyword) ==
    /\ vm' = [u \in Views |-> [w EXCEPT !.isLoading = TRUE,
                                        !.searchKeyword = Trim(keyword)]]
    /\ EnterGetRdbStore(t, "queryMemosByTitle", [keyword |-> Trim(keyword)])
    /\ vpc' = [vpc EXCEPT ![t] = "query"]

\* The body of searchMemos up to its await, on the instance as w: isLoading is
\* set, the trimmed keyword stored, and queryMemosByTitle called with it.
EnterSearchMemos(t, v, w, keyword) ==
    /\ vm' = [vm EXCEPT ![v] = [w EXCEPT !.isLoading = TRUE,
                                         !.searchKeyword = Trim(keyword)]]
    /\ EnterGetRdbStore(t, "queryMemosByTitle", [keyword |-> Trim(keyword)])
    /\ vpc' = [vpc EXCEPT ![t] = "query"]

\* searchMemos(keyword).
SearchMemos(t, v) ==
    \E keyword \in SearchInputs :
        /\ Called(t, v, "searchMemos")
        /\ IF Unbound(v)
             THEN ReturnsAtOnce(t, "void")
             ELSE /\ EnterSearchMemos(t, v, vm[v], keyword)
                  /\ vloc' = [vloc EXCEPT ![t].keyword = keyword]
                  /\ UNCHANGED vret

\* What the catch of searchMemos assigns to memos.
SearchCatch == <<>>

\* An assignment that drops what the query returned.
SearchKeepsNothing(r) == SearchCatch

\* What searchMemos assigns to memos: the query's result, [] in its catch.
SearchResult(r) == IF r.kind = "raised" THEN SearchCatch ELSE r.memos

\* queryMemosByTitle has settled in searchMemos: memos is assigned, isLoading
\* cleared (finally), and searchMemos returns; a method that awaits it
\* (saveCurrentMemo, deleteMemo, loadInitialData) resumes later.
SearchSettles(t) ==
    /\ vpc[t] = "query" /\ pc[t] = "done"
    /\ vm' = [vm EXCEPT ![vview[t]].memos = SearchResult(ret[t]),
                        ![vview[t]].isLoading = FALSE]
    /\ LeaveFrame(t)
    /\ IF vop[t] = "searchMemos"
         THEN ViewReturns(t, "void")
         ELSE vpc' = [vpc EXCEPT ![t] = "refreshed"] /\ UNCHANGED vret
    /\ UNCHANGED << vop, vview, vloc >>

\* The method that awaited searchMemos resumes: its finally clears isLoading,
\* and it returns (saveCurrentMemo: success).
Refreshed(t) ==
    /\ vpc[t] = "refreshed"
    /\ vm' = [vm EXCEPT ![vview[t]].isLoading = FALSE]
    /\ ViewReturns(t, IF vop[t] = "saveCurrentMemo"
                        THEN (IF vloc[t].success THEN "true" ELSE "false")
                        ELSE "void")
    /\ UNCHANGED << vop, vview, vloc >>
    /\ UNCHANGED progVars

\* The caller takes the method's result; the task is free again.
ViewReturn(t) ==
    /\ vpc[t] = "vdone"
    /\ vpc' = [vpc EXCEPT ![t] = "idle"]
    /\ vop' = [vop EXCEPT ![t] = "none"]
    /\ vview' = [vview EXCEPT ![t] = 0]
    /\ vloc' = [vloc EXCEPT ![t] = NoLocals]
    /\ vret' = [vret EXCEPT ![t] = "none"]
    /\ UNCHANGED vm
    /\ UNCHANGED progVars

\* loadMemoById(id): isLoading is set and queryMemoById called.
LoadMemoById(t, v) ==
    \E id \in Ids :
        /\ Called(t, v, "loadMemoById")
        /\ IF Unbound(v)
             THEN ReturnsAtOnce(t, "void")
             ELSE /\ vm' = [vm EXCEPT ![v].isLoading = TRUE]
                  /\ EnterGetRdbStore(t, "queryMemoById", [id |-> id])
                  /\ vpc' = [vpc EXCEPT ![t] = "byId"]
                  /\ UNCHANGED << vloc, vret >>

\* queryMemoById has settled in loadMemoById: currentMemo is assigned (null in
\* the catch) and isLoading cleared.
LoadByIdSettles(t) ==
    /\ vpc[t] = "byId" /\ pc[t] = "done"
    /\ vm' = [vm EXCEPT ![vview[t]].currentMemo =
                            IF ret[t].kind = "raised" THEN <<>> ELSE ret[t].memos,
                        ![vview[t]].isLoading = FALSE]
    /\ LeaveFrame(t)
    /\ ViewReturns(t, "void")
    /\ UNCHANGED << vop, vview, vloc >>

\* A test that finds no current memo, whatever there is.
HasNoStoredMemo(w) == FALSE

\* saveCurrentMemo's test: `this.currentMemo && this.currentMemo.id !== undefined`.
HasStoredMemo(w) == w.currentMemo # <<>> /\ w.currentMemo[1].id # undefined

\* saveCurrentMemo(title, content) up to its await: with a current memo that
\* has an id it calls updateMemo with a Memo of that id and createdDate and the
\* clock's reading; otherwise addMemo with new Memo(title, content).
SaveCurrentMemo(t, v) ==
    \E txt \in NoteTexts, time \in Times :
        /\ Called(t, v, "saveCurrentMemo")
        /\ IF Unbound(v)
             THEN ReturnsAtOnce(t, "false")
             ELSE /\ vm' = [vm EXCEPT ![v].isLoading = TRUE]
                  /\ vpc' = [vpc EXCEPT ![t] = "write"]
                  /\ UNCHANGED vret
                  /\ IF HasStoredMemo(vm[v])
                       THEN LET cur == vm[v].currentMemo[1]
                            IN  /\ EnterGetRdbStore(t, "updateMemo",
                                      [ memo  |-> MemoCtor(txt[1], txt[2], cur.id,
                                                           cur.createdDate, time, time),
                                        stamp |-> undefined ])
                                /\ vloc' = [vloc EXCEPT ![t] =
                                      [NoLocals EXCEPT !.title = txt[1], !.content = txt[2],
                                                       !.id = cur.id]]
                       ELSE /\ nextId <= MaxRows
                            /\ EnterGetRdbStore(t, "addMemo",
                                  [ memo  |-> MemoCtor(txt[1], txt[2], undefined,
                                                       undefined, undefined, time),
                                    plain |-> TRUE ])
                            /\ vloc' = [vloc EXCEPT ![t] =
                                  [NoLocals EXCEPT !.title = txt[1], !.content = txt[2]]]

\* deleteMemo(id) up to its await: isLoading is set and memoDao.deleteMemo called.
DeleteMemo(t, v) ==
    \E id \in Ids :
        /\ Called(t, v, "deleteMemo")
        /\ IF Unbound(v)
             THEN ReturnsAtOnce(t, "void")
             ELSE /\ vm' = [vm EXCEPT ![v].isLoading = TRUE]
                  /\ vpc' = [vpc EXCEPT ![t] = "write"]
                  /\ EnterGetRdbStore(t, "deleteMemo", [id |-> id])
                  /\ vloc' = [vloc EXCEPT ![t] = [NoLocals EXCEPT !.id = id]]
                  /\ UNCHANGED vret

\* A test that takes every settled write for a success.
WriteAlwaysSucceeded(r) == TRUE

\* A test that takes whatever the write returned for success.
WriteReturned(r) == r.kind = "ok"

\* The test on what the write gave: affectedRows > 0, rowId > 0; a raised
\* error goes to the catch.
WriteSucceeded(r) == r.kind = "ok" /\ r.num > 0

\* A catch that throws the error again, to the method's caller.
ViewCatchRethrows(o) == "raised"

\* What a method returns out of its catch: saveCurrentMemo its success, set
\* to false there; deleteMemo nothing.
ViewCatch(o) == IF o = "saveCurrentMemo" THEN "false" ELSE "void"

\* The write of saveCurrentMemo or deleteMemo has settled.  After success the
\* method calls searchMemos(this.searchKeyword) at once; otherwise its finally
\* clears isLoading and it returns (saveCurrentMemo: false).
WriteSettles(t) ==
    /\ vpc[t] = "write" /\ pc[t] = "done"
    /\ UNCHANGED << vop, vview >>
    /\ IF WriteSucceeded(ret[t])
         THEN /\ EnterSearchMemos(t, vview[t], vm[vview[t]], vm[vview[t]].searchKeyword)
              /\ vloc' = [vloc EXCEPT ![t].success = TRUE,
                                      ![t].id = IF op[t] = "addMemo" THEN ret[t].num ELSE @]
              /\ UNCHANGED vret
         ELSE /\ vm' = [vm EXCEPT ![vview[t]].isLoading = FALSE]
              /\ LeaveFrame(t)
              /\ ViewReturns(t, IF ret[t].kind = "raised" THEN ViewCatch(vop[t])
                                ELSE IF vop[t] = "saveCurrentMemo" THEN "false"
                                ELSE "void")
              /\ UNCHANGED vloc

\* The presentation code assigns the public fields titleFontSize and
\* contentFontSize (saveFontSizes saves what they hold).
SetFontSizes(v) ==
    \E ts \in FontSizes, cs \in FontSizes :
        /\ << vm[v].titleFontSize, vm[v].contentFontSize >> # << ts, cs >>
        /\ vm' = [vm EXCEPT ![v].titleFontSize = ts, ![v].contentFontSize = cs]
        /\ UNCHANGED << vop, vpc, vview, vloc, vret >>
        /\ UNCHANGED progVars

\* The body of the view model's loadFontSizes up to its await.
EnterLoadFontSizes(t) ==
    /\ EnterGetPreferences(t, "loadFontSizes",
           [titleSize |-> DEFAULT_TITLE_FONT_SIZE, contentSize |-> DEFAULT_CONTENT_FONT_SIZE])
    /\ vpc' = [vpc EXCEPT ![t] = "fonts"]

\* loadFontSizes().
LoadFontSizes(t, v) ==
    /\ Called(t, v, "loadFontSizes")
    /\ IF Unbound(v)
         THEN ReturnsAtOnce(t, "void")
         ELSE EnterLoadFontSizes(t) /\ UNCHANGED << vm, vloc, vret >>

\* loadInitialData() up to its await: isLoading is set and loadFontSizes called.
LoadInitialData(t, v) ==
    /\ Called(t, v, "loadInitialData")
    /\ IF Unbound(v)
         THEN ReturnsAtOnce(t, "void")
         ELSE /\ vm' = [vm EXCEPT ![v].isLoading = TRUE]
              /\ EnterLoadFontSizes(t)
              /\ UNCHANGED << vloc, vret >>

\* A loadFontSizes that assigns nothing.
SizesNotAssigned(w, r) == << w.titleFontSize, w.contentFontSize >>

\* The sizes of the instance w after loadFontSizes got r: the pair r holds is
\* assigned; the catch keeps what w has.
LoadedSizes(w, r) ==
    IF r.kind = "raised" THEN << w.titleFontSize, w.contentFontSize >> ELSE r.sizes

\* preferencesHelper.loadFontSizes has settled: both sizes are assigned, and
\* loadFontSizes returns; loadInitialData, awaiting it, resumes later.
FontsLoaded(t) ==
    /\ vpc[t] = "fonts" /\ pc[t] = "done" /\ op[t] = "loadFontSizes"
    /\ vm' = [vm EXCEPT ![vview[t]].titleFontSize = LoadedSizes(vm[vview[t]], ret[t])[1],
                        ![vview[t]].contentFontSize = LoadedSizes(vm[vview[t]], ret[t])[2]]
    /\ LeaveFrame(t)
    /\ IF vop[t] = "loadFontSizes"
         THEN ViewReturns(t, "void")
         ELSE vpc' = [vpc EXCEPT ![t] = "fontsLoaded"] /\ UNCHANGED vret
    /\ UNCHANGED << vop, vview, vloc >>

\* loadInitialData resumes after loadFontSizes: it calls
\* searchMemos(this.searchKeyword).
InitialSearch(t) ==
    /\ vpc[t] = "fontsLoaded" /\ pc[t] = "idle"
    /\ EnterSearchMemos(t, vview[t], vm[vview[t]], vm[vview[t]].searchKeyword)
    /\ UNCHANGED << vop, vview, vloc, vret >>

\* saveFontSizes(): preferencesHelper.saveFontSizes with the instance's sizes.
SaveFontSizes(t, v) ==
    /\ Called(t, v, "saveFontSizes")
    /\ IF Unbound(v)
         THEN ReturnsAtOnce(t, "void")
         ELSE /\ EnterGetPreferences(t, "saveFontSizes",
                     [titleSize |-> vm[v].titleFontSize, contentSize |-> vm[v].contentFontSize])
              /\ vpc' = [vpc EXCEPT ![t] = "fonts"]
              /\ UNCHANGED << vm, vloc, vret >>

\* preferencesHelper.saveFontSizes has settled: saveFontSizes returns.
FontsSaved(t) ==
    /\ vpc[t] = "fonts" /\ pc[t] = "done" /\ op[t] = "saveFontSizes"
    /\ LeaveFrame(t)
    /\ ViewReturns(t, "void")
    /\ UNCHANGED << vm, vop, vview, vloc >>

\* ============================================================ claims
Reads == {"queryAllMemos", "queryMemosByTitle", "queryMemoById"}
Writes == {"addMemo", "updateMemo", "deleteMemo"}
Ended(t) == pc[t] = "done"

\* The row a memo was read from.
RowOf(m) ==
    [ id |-> m.id, title |-> m.title, content |-> m.content,
      created_date |-> m.createdDate, modified_date |-> m.modifiedDate ]

\* The memos of s are rows of tbl, each at most once.
FromTable(s, tbl) ==
    /\ \A i \in 1 .. Len(s) : RowOf(s[i]) \in tbl
    /\ \A i, j \in 1 .. Len(s) : i # j => s[i] # s[j]

\* s lists every row of tbl once, by modifiedDate descending.
ListsAll(s, tbl) ==
    /\ FromTable(s, tbl)
    /\ Len(s) = Cardinality(tbl)
    /\ \A i, j \in 1 .. Len(s) : i < j => s[i].modifiedDate >= s[j].modifiedDate

\* What queryAllMemos can return on the table tbl when nothing fails.
QueryAllResults(tbl) ==
    { ParseResultSet(rs, 0) : rs \in ResultSets(QueryAllMemosPredicates, tbl) }

IsBlank(k) == k # <<>> /\ \A i \in 1 .. Len(k) : k[i] = " "

\* ---- C1 (as claimed): getRdbStore calls that start before an earlier call's
\* open has resolved share one open, so no two opens of the store are ever in
\* flight together, and all callers hold the same handle.
C1_OneOpenOneHandle ==
    /\ Cardinality({ t \in Tasks : pc[t] = "opening" }) <= 1
    /\ \A t, u \in Tasks : (store[t] # null /\ store[u] # null) => store[t] = store[u]

\* ---- C2 (as claimed): preference operations that start before an earlier
\* one's open has resolved share one open of the preference file, so no two
\* opens are ever in flight together, and all of them use the same handle.
C2_OnePrefOpenOneHandle ==
    /\ Cardinality({ t \in Tasks : pc[t] = "prefOpening" }) <= 1
    /\ \A t, u \in Tasks : (prefs[t] # null /\ prefs[u] # null) => prefs[t] = prefs[u]

\* ---- C3 (as claimed): once a getRdbStore call has returned a handle, a call
\* that starts afterwards performs no open and returns that same handle.
C3_LaterCallsGetReturnedHandle ==
    \A t \in Tasks :
        seenAtStart[t] # null =>
            /\ pc[t] # "opening"
            /\ store[t] # null => store[t] = seenAtStart[t]

\* ---- C4 (as claimed): when the open fails, getRdbStore raises to its
\* caller, the memoized handle is unset after it, and a call that finds no
\* memoized handle attempts the open.
C4_FailedOpenRaisesAndLeavesUnset ==
    [][ \A t \in Tasks :
          /\ (pc[t] = "opening" /\ pc'[t] = "done" /\ fault'[t] = {"open"})
                => (ret'[t] = Raised /\ rdbStore' = null)
          /\ (pc[t] = "idle" /\ op'[t] = "getRdbStore" /\ rdbStore = null)
                => pc'[t] = "opening" ]_vars

C7_AddThenQueryById ==
    \A t \in Tasks :
        ( /\ Ended(t) /\ op[t] = "queryMemoById" /\ fault[t] = {}
          /\ lastAdd # NoAdd /\ lastAdd.plain /\ arg[t].id = lastAdd.id ) =>
            /\ Len(ret[t].memos) = 1
            /\ ret[t].memos[1].id = lastAdd.id
            /\ ret[t].memos[1].title = lastAdd.title
            /\ ret[t].memos[1].content = lastAdd.content
            /\ ret[t].memos[1].createdDate = ret[t].memos[1].modifiedDate

\* The second note added (beside another row) has been read back by its id.
C7_Witness ==
    \E t \in Tasks :
        /\ Ended(t) /\ op[t] = "queryMemoById" /\ fault[t] = {}
        /\ lastAdd # NoAdd /\ lastAdd.plain /\ arg[t].id = lastAdd.id
        /\ lastAdd.id = 2 /\ Cardinality(table) = 2
        /\ Len(ret[t].memos) = 1

\* ---- C8 (as claimed): after N successful adds on an empty store queryAll
\* returns exactly the N notes, each once, by modifiedDate descending, and
\* notes of equal modifiedDate in an order fixed by their ids: two listings of
\* the same notes are the same sequence.
C8_RoundTripDeterministicOrder ==
    [][ \A t \in Tasks :
          (pc[t] = "stmt" /\ op[t] = "queryAllMemos" /\ pc'[t] = "closing" /\ fault'[t] = {}) =>
              /\ ListsAll(ret'[t].memos, table)
              /\ \A u \in Tasks \ {t} :
                   ( /\ Ended(u) /\ op[u] = "queryAllMemos" /\ fault[u] = {}
                     /\ ListsAll(ret[u].memos, table) )
                       => ret[u].memos = ret'[t].memos ]_vars

\* ---- C9 (as claimed): queryMemosByTitle with the empty keyword returns,
\* when nothing fails, the sequence queryAllMemos returns on the same table,
\* in the same order: whatever listing queryAllMemos gives, it is this one.
C9_EmptyKeywordIsQueryAll ==
    \A t \in Tasks :
        ( /\ Ended(t) /\ op[t] = "queryMemosByTitle" /\ fault[t] = {}
          /\ arg[t].keyword = <<>> ) =>
            \A s \in QueryAllResults(table) : ret[t].memos = s

\* ---- C10 (as claimed): queryMemosByTitle with a blank keyword (not empty,
\* whitespace only) returns, when nothing fails, a sequence queryAllMemos
\* returns on the same table.
C10_BlankKeywordIsQueryAll ==
    \A t \in Tasks :
        ( /\ Ended(t) /\ op[t] = "queryMemosByTitle" /\ fault[t] = {}
          /\ IsBlank(arg[t].keyword) ) =>
            ret[t].memos \in QueryAllResults(table)

\* The title s contains the keyword k as a run of consecutive characters,
\* letter case aside.
ContainsKeyword(k, s) ==
    \E i \in 0 .. (Len(s) - Len(k)) :
        \A j \in 1 .. Len(k) : Lower(s[i + j]) = Lower(k[j])

\* ---- C11 (as claimed): queryMemosByTitle with a non-empty keyword returns,
\* when nothing fails, exactly the notes whose title contains the keyword as
\* it is written (also when it holds % or _), by modifiedDate descending.
C11_KeywordIsLiteralSubstring ==
    \A t \in Tasks :
        ( /\ Ended(t) /\ op[t] = "queryMemosByTitle" /\ fault[t] = {}
          /\ arg[t].keyword # <<>> ) =>
            /\ FromTable(ret[t].memos, table)
            /\ { RowOf(ret[t].memos[i]) : i \in 1 .. Len(ret[t].memos) }
                 = { r \in table : ContainsKeyword(arg[t].keyword, r.title) }
            /\ \A i, j \in 1 .. Len(ret[t].memos) :
                 i < j => ret[t].memos[i].modifiedDate >= ret[t].memos[j].modifiedDate

\* ---- C12 (as claimed): a successful update of a stored note, whatever the
\* clock reads, leaves its modifiedDate no smaller than it was, and leaves its
\* createdDate and its id as they were.
C12_UpdateKeepsDatesOrdered ==
    [][ \A t \in Tasks :
          (pc[t] = "stmt" /\ op[t] = "updateMemo" /\ pc'[t] = "done" /\ fault'[t] = {}) =>
              \A r \in table :
                  r.id = arg[t].memo.id =>
                      \E q \in table' :
                          /\ q.id = r.id
                          /\ q.created_date = r.created_date
                          /\ q.modified_date >= r.modified_date ]_vars

\* ---- C13 (as claimed): every stored note has createdDate <= modifiedDate,
\* after any adds (of any Memo a caller can construct), updates and deletes.
C13_CreatedBeforeModified ==
    \A r \in table : r.created_date <= r.modified_date

\* ---- C14: deleteMemo of an id that has no row returns 0 and leaves the
\* table as it was; deleteMemo of an id that has a row removes that row and
\* no other, leaves every other row as it was, and returns 1.
C14_DeleteRemovesOnlyThatRow ==
    [][ \A t \in Tasks :
          (pc[t] = "stmt" /\ op[t] = "deleteMemo" /\ pc'[t] = "done" /\ fault'[t] = {}) =>
              IF \E r \in table : r.id = arg[t].id
                THEN /\ table' = { r \in table : r.id # arg[t].id }
                     /\ ret'[t] = Number(1)
                ELSE /\ table' = table
                     /\ ret'[t] = Number(0) ]_vars

\* A delete has removed one row of two: the other is still stored.
C14_Witness ==
    \E t \in Tasks :
        /\ Ended(t) /\ op[t] = "deleteMemo" /\ fault[t] = {}
        /\ ret[t] = Number(1)
        /\ Cardinality(table) = 1
        /\ \A r \in table : r.id # arg[t].id

\* ---- C15: whenever queryAllMemos, queryMemosByTitle or queryMemoById has
\* returned (with rows, with none, or after a throw while reading a row), the
\* ResultSet its query gave has had its close called: no ResultSet is ever
\* left obtained without a close call.
C15_EveryResultSetClosed ==
    \A t \in Tasks :
        /\ resultSet[t] # "open"
        /\ (Ended(t) /\ op[t] \in Reads /\ fault[t] \cap {"open", "query"} = {})
              => resultSet[t] = "closed"

\* A list query whose second row threw while being read has returned, its
\* ResultSet closed.
C15_Witness ==
    \E t \in Tasks :
        /\ Ended(t) /\ op[t] = "queryAllMemos"
        /\ "decode" \in fault[t] /\ Len(ret[t].memos) = 1
        /\ resultSet[t] = "closed"

\* The value stored under key, or def when the key is not stored.
StoredOr(key, def) == IF key \in DOMAIN prefMem THEN prefMem[key] ELSE def

\* ---- C19: loadFontSizes on a preference file with no stored key returns
\* (18, 14); a saveFontSizes(t, c) that completes without failure stores t and
\* c, and a loadFontSizes without failure returns what is stored, so after
\* that save it returns (t, c); with one key stored the other comes back as
\* its default.  (Calls during which no other caller's put changed the
\* stored values.)
C19_FontSizesRoundTrip ==
    \A t \in Tasks :
        (Ended(t) /\ fault[t] = {} /\ ~overwritten[t]) =>
            /\ op[t] = "saveFontSizes" =>
                 /\ StoredOr(KEY_TITLE_FONT_SIZE, 0) = arg[t].titleSize
                 /\ StoredOr(KEY_CONTENT_FONT_SIZE, 0) = arg[t].contentSize
                 /\ prefFile = prefMem
            /\ op[t] = "loadFontSizes" =>
                 /\ ret[t] = Sizes(StoredOr(KEY_TITLE_FONT_SIZE, 18),
                                  StoredOr(KEY_CONTENT_FONT_SIZE, 14))
                 /\ prefMem = <<>> => ret[t] = Sizes(18, 14)

\* One caller's saveFontSizes(22, 16) has completed and another's
\* loadFontSizes, with no put during it, has returned (22, 16).
C19_Witness ==
    \E t, u \in Tasks :
        /\ Ended(t) /\ op[t] = "saveFontSizes" /\ fault[t] = {} /\ ~overwritten[t]
        /\ arg[t].titleSize = 22 /\ arg[t].contentSize = 16
        /\ Ended(u) /\ op[u] = "loadFontSizes" /\ fault[u] = {} /\ ~overwritten[u]
        /\ ret[u] = Sizes(22, 16)

\* ---- C20 (as claimed): when a step of loadFontSizes fails (the open of the
\* preference file, the read of the title size, the read of the content
\* size), loadFontSizes does not raise and returns the defaults (18, 14).
C20_FailedLoadGivesDefaults ==
    \A t \in Tasks :
        (Ended(t) /\ op[t] = "loadFontSizes" /\ fault[t] # {}) =>
            ret[t] = Sizes(18, 14)

\* ---- C16: a method called on a view model that initialize has not bound
\* (loadInitialData, searchMemos, loadMemoById, saveCurrentMemo, deleteMemo,
\* loadFontSizes, saveFontSizes) returns at once, saveCurrentMemo with false:
\* no field of any view model changes, and no call to MemoDao or
\* PreferencesHelper starts, so store and preferences stay as they were.
C16_UnboundMethodsDoNothing ==
    [][ \A t \in Tasks :
          (vpc[t] = "idle" /\ vpc'[t] # "idle" /\ ~vm[vview'[t]].context) =>
              /\ vpc'[t] = "vdone"
              /\ vret'[t] = (IF vop'[t] = "saveCurrentMemo" THEN "false" ELSE "void")
              /\ vm' = vm
              /\ UNCHANGED progVars ]_vars

\* saveCurrentMemo has returned false on an instance without a context.
C16_Witness ==
    \E t \in Tasks :
        /\ vpc[t] = "vdone" /\ vop[t] = "saveCurrentMemo" /\ vret[t] = "false"
        /\ ~vm[vview[t]].context

\* The memos s hold the note task t saved (its id, the title and content given
\* to saveCurrentMemo) at one place, and no other memo of that id.
HoldsSavedOnce(t, s) ==
    \E i \in 1 .. Len(s) :
        /\ s[i].id = vloc[t].id
        /\ s[i].title = vloc[t].title /\ s[i].content = vloc[t].content
        /\ \A j \in 1 .. Len(s) : j # i => s[j].id # vloc[t].id

\* The list query for keyword k selects a row of title s.
KeywordAdmits(k, s) == k = <<>> \/ LikeMatch(<<"%">> \o k \o <<"%">>, s)

\* ---- C17 (as claimed): whenever saveCurrentMemo(title, content) has
\* returned true, whatever searchKeyword is, after an add as after an edit,
\* memos holds the saved note exactly once with the new title and content.
C17_SavedNoteIsListed ==
    \A t \in Tasks :
        (vpc[t] = "vdone" /\ vop[t] = "saveCurrentMemo" /\ vret[t] = "true") =>
            HoldsSavedOnce(t, vm[vview[t]].memos)

\* ---- C17 (amended): saveCurrentMemo returns true only after its write has
\* succeeded and its own searchMemos(searchKeyword) has settled, with no
\* further call.  The store then holds the saved note with the new title and
\* content.  memos holds it exactly once when that list query did not fail
\* (no failed query, no failed row decode) and searchKeyword is empty or
\* matches the new title; memos is not changed between the refresh and the
\* return of true.
C17_SavedNoteIsListedWhenKeywordAdmits ==
    [][ \A t \in Tasks :
          /\ (vop[t] = "saveCurrentMemo" /\ vpc[t] = "query" /\ vpc'[t] = "refreshed") =>
                /\ \E r \in table :
                      /\ r.id = vloc[t].id
                      /\ r.title = vloc[t].title /\ r.content = vloc[t].content
                /\ ( /\ ret[t].kind = "ok" /\ fault[t] \subseteq {"close"}
                     /\ KeywordAdmits(vm[vview[t]].searchKeyword, vloc[t].title) ) =>
                        HoldsSavedOnce(t, vm'[vview[t]].memos)
          /\ ( /\ vop[t] = "saveCurrentMemo" /\ vpc[t] # "vdone"
               /\ vpc'[t] = "vdone" /\ vret'[t] = "true" ) =>
                /\ vpc[t] = "refreshed"
                /\ vm'[vview[t]].memos = vm[vview[t]].memos ]_vars

\* An edit saved under a keyword that matches its new title has returned true,
\* and memos holds the note.
C17_Witness ==
    \E t \in Tasks :
        /\ vpc[t] = "vdone" /\ vop[t] = "saveCurrentMemo" /\ vret[t] = "true"
        /\ vm[vview[t]].searchKeyword # <<>>
        /\ vm[vview[t]].currentMemo # <<>>
        /\ HoldsSavedOnce(t, vm[vview[t]].memos)

\* What queryMemosByTitle(k) can return on the table tbl when nothing fails.
QueryByTitleResults(k, tbl) ==
    { ParseResultSet(rs, 0) : rs \in ResultSets(QueryMemosByTitlePredicates(k), tbl) }

\* Task t runs saveCurrentMemo or deleteMemo.
Mutates(t) == vop[t] \in {"saveCurrentMemo", "deleteMemo"}

\* ---- C18 (as claimed): when a saveCurrentMemo or deleteMemo whose write
\* succeeded has completed, memos is what queryMemosByTitle(searchKeyword)
\* gives on the store as it is at that moment.
C18_MutationLeavesListCurrent ==
    \A t \in Tasks :
        (vpc[t] = "vdone" /\ Mutates(t) /\ vloc[t].success) =>
            vm[vview[t]].memos \in QueryByTitleResults(vm[vview[t]].searchKeyword, table)

\* ---- C18 (amended): a saveCurrentMemo or deleteMemo whose write succeeded
\* always calls queryMemosByTitle(searchKeyword) before it completes, with the
\* keyword as stored.  When that query settles memos is what it returned on
\* the store as it is then: the full result when the read did not fail, the
\* empty sequence when the query failed, the memos decoded before the failing
\* row when a decode failed.  The method completes after that, with memos and
\* the store as the refresh left them.  (No other operation overlaps.)
C18_MutationRefreshesBeforeCompleting ==
    [][ \A t \in Tasks :
          LET v == vview[t]
          IN  /\ ( /\ Mutates(t) /\ vpc[t] = "write" /\ vpc'[t] # "write"
                   /\ ret[t].kind = "ok" /\ ret[t].num > 0 ) =>
                     /\ vpc'[t] = "query" /\ op'[t] = "queryMemosByTitle"
                     /\ arg'[t].keyword = vm[v].searchKeyword
                     /\ vm'[v].searchKeyword = vm[v].searchKeyword
              /\ (Mutates(t) /\ vpc[t] = "query" /\ vpc'[t] # "query") =>
                     /\ vpc'[t] = "refreshed" /\ table' = table
                     /\ fault[t] \subseteq {"close"} =>
                          vm'[v].memos \in QueryByTitleResults(vm[v].searchKeyword, table)
                     /\ "query" \in fault[t] => vm'[v].memos = <<>>
                     /\ "decode" \in fault[t] =>
                          \E s \in QueryByTitleResults(vm[v].searchKeyword, table) :
                              /\ Len(vm'[v].memos) < Len(s)
                              /\ vm'[v].memos = SubSeq(s, 1, Len(vm'[v].memos))
              /\ (Mutates(t) /\ vpc[t] # "vdone" /\ vpc'[t] = "vdone" /\ vloc[t].success) =>
                     /\ vpc[t] = "refreshed"
                     /\ vm'[v].memos = vm[v].memos /\ table' = table
                     /\ vm'[v].searchKeyword = vm[v].searchKeyword ]_vars

\* A deleteMemo under a keyword has completed, and memos holds the note that
\* is left and matches.
C18_Witness ==
    \E t \in Tasks :
        /\ vpc[t] = "vdone" /\ vop[t] = "deleteMemo" /\ vloc[t].success
        /\ vm[vview[t]].searchKeyword # <<>>
        /\ vm[vview[t]].memos # <<>>
        /\ vm[vview[t]].memos \in QueryByTitleResults(vm[vview[t]].searchKeyword, table)

\* ---- C21: saveFontSizes never raises to its caller, whichever step fails
\* (the open of the preference file, either put, the flush): it ends with
\* nothing returned.  It goes to its second put only when the first has
\* succeeded and to the flush only when the second has, and the file is
\* written by nothing but a flush that succeeds.
C21_SaveFontSizesSwallowsAndFlushesLast ==
    [][ /\ \A t \in Tasks :
             op'[t] = "saveFontSizes" =>
                /\ (pc[t] # "done" /\ pc'[t] = "done") =>
                      /\ ret'[t] = Void
                      /\ fault'[t] # {} => prefFile' = prefFile
                /\ (pc[t] # "putContent" /\ pc'[t] = "putContent") =>
                      /\ pc[t] = "putTitle" /\ fault'[t] = {}
                      /\ KEY_TITLE_FONT_SIZE \in DOMAIN prefMem'
                      /\ prefMem'[KEY_TITLE_FONT_SIZE] = arg[t].titleSize
                /\ (pc[t] # "flush" /\ pc'[t] = "flush") =>
                      /\ pc[t] = "putContent" /\ fault'[t] = {}
                      /\ KEY_TITLE_FONT_SIZE \in DOMAIN prefMem'
                      /\ KEY_CONTENT_FONT_SIZE \in DOMAIN prefMem'
                      /\ prefMem'[KEY_CONTENT_FONT_SIZE] = arg[t].contentSize
        /\ prefFile' # prefFile =>
              \E t \in Tasks : /\ op[t] = "saveFontSizes" /\ pc[t] = "flush"
                               /\ pc'[t] = "done" /\ fault'[t] = {} ]_vars

\* A saveFontSizes whose second put failed has ended without raising: the
\* first size is put, and nothing was flushed to the file.
C21_Witness ==
    \E t \in Tasks :
        /\ Ended(t) /\ op[t] = "saveFontSizes" /\ fault[t] = {"putContent"}
        /\ ret[t] = Void
        /\ prefFile # prefMem

\* ---- C22: updateMemo of a memo without an id returns 0 at once: it asks for
\* no storage handle, issues no statement, and every stored row stays as it is.
C22_UpdateWithoutIdDoesNothing ==
    [][ \A t \in Tasks :
          ( /\ pc[t] = "idle" /\ op'[t] = "updateMemo"
            /\ arg'[t].memo.id = undefined ) =>
              /\ pc'[t] = "done" /\ ret'[t] = Number(0)
              /\ table' = table /\ nextId' = nextId
              /\ rdbStore' = rdbStore /\ store' = store ]_vars

\* updateMemo of a memo without an id has returned 0 over a store with a row.
C22_Witness ==
    \E t \in Tasks :
        /\ Ended(t) /\ op[t] = "updateMemo" /\ arg[t].memo.id = undefined
        /\ ret[t] = Number(0)
        /\ table # {}

C24_AddIgnoresGivenId ==
    [][ \A t \in Tasks :
          (pc[t] = "stmt" /\ pc'[t] = "done" /\ op[t] = "addMemo") =>
              IF fault'[t] = {}
                THEN /\ ret'[t] = Number(nextId)
                     /\ \A r \in table : r.id # ret'[t].num
                     /\ table \subseteq table'
                     /\ Cardinality(table') = Cardinality(table) + 1
                     /\ \E r \in table' \ table :
                           /\ r.id = ret'[t].num
                           /\ r.title = arg[t].memo.title
                           /\ r.content = arg[t].memo.content
                ELSE /\ ret'[t] = Number(-1)
                     /\ table' = table ]_vars

\* addMemo of a memo carrying the id 1, over a store that holds row 1, has
\* returned 2, and both rows are stored.
C24_Witness ==
    \E t \in Tasks :
        /\ Ended(t) /\ op[t] = "addMemo" /\ arg[t].memo.id = 1
        /\ ret[t] = Number(2)
        /\ \E r, s \in table : r.id = 1 /\ s.id = 2

\* ---- C25: saveCurrentMemo on a bound view model issues exactly one write.
\* With a current memo that has an id it calls updateMemo, once, with that id,
\* the current memo's createdDate and the title and content given; otherwise
\* it calls addMemo, once, with a memo of no id.  It starts no write after
\* that.  When the write reports a count or an id above 0 it goes on to its
\* refresh and then returns true; when the write reports anything else, or
\* raises, it returns false at once.
C25_SaveIssuesOneWrite ==
    [][ \A t \in Tasks :
          LET v == vview'[t]
              w == vm[v]
          IN  /\ (vpc[t] = "idle" /\ vop'[t] = "saveCurrentMemo" /\ w.context) =>
                    /\ vpc'[t] = "write"
                    /\ IF w.currentMemo # <<>> /\ w.currentMemo[1].id # undefined
                         THEN /\ op'[t] = "updateMemo"
                              /\ arg'[t].memo.id = w.currentMemo[1].id
                              /\ arg'[t].memo.createdDate = w.currentMemo[1].createdDate
                         ELSE /\ op'[t] = "addMemo"
                              /\ arg'[t].memo.id = undefined
                    /\ arg'[t].memo.title = vloc'[t].title
                    /\ arg'[t].memo.content = vloc'[t].content
              /\ ( /\ vop[t] = "saveCurrentMemo" /\ op'[t] \in Writes
                   /\ pc[t] \in {"idle", "done"} /\ pc'[t] \notin {"idle", "done"} ) =>
                    vpc[t] = "idle"
              /\ (vop[t] = "saveCurrentMemo" /\ vpc[t] = "write" /\ vpc'[t] # "write") =>
                    IF ret[t].kind = "ok" /\ ret[t].num > 0
                      THEN vpc'[t] = "query" /\ op'[t] = "queryMemosByTitle"
                      ELSE vpc'[t] = "vdone" /\ vret'[t] = "false"
              /\ (vop[t] = "saveCurrentMemo" /\ vpc[t] # "vdone" /\ vpc'[t] = "vdone") =>
                    /\ vpc[t] \in {"write", "refreshed"}
                    /\ vpc[t] = "refreshed" => vret'[t] = "true" ]_vars

\* An edit has returned true, and the one insert there ever was is the add
\* that stored the note.
C25_Witness ==
    \E t \in Tasks :
        /\ vpc[t] = "vdone" /\ vop[t] = "saveCurrentMemo" /\ vret[t] = "true"
        /\ vm[vview[t]].currentMemo # <<>>
        /\ nextId = 2 /\ Cardinality(table) = 1

\* ---- C26: when the write of deleteMemo (a delete of no row, or one that
\* failed) or of saveCurrentMemo (an update of no row, an insert that gave -1,
\* or a write that failed) has not succeeded, the method ends without a list
\* query, and memos and searchKeyword are what they were when it was called.
C26_FailedWriteLeavesListAlone ==
    [][ \A t \in Tasks :
          LET v == vview'[t]
          IN  /\ (vop'[t] \in {"saveCurrentMemo", "deleteMemo"} /\ vpc'[t] = "write") =>
                    /\ vm'[v].memos = vm[v].memos
                    /\ vm'[v].searchKeyword = vm[v].searchKeyword
              /\ ( /\ Mutates(t) /\ vpc[t] = "write" /\ vpc'[t] # "write"
                   /\ ~(ret[t].kind = "ok" /\ ret[t].num > 0) ) =>
                    /\ vpc'[t] = "vdone"
                    /\ pc'[t] = "idle" /\ op'[t] = "none"
                    /\ vm'[v].memos = vm[v].memos
                    /\ vm'[v].searchKeyword = vm[v].searchKeyword ]_vars

\* A saveCurrentMemo whose write did not succeed has returned false, under a
\* keyword and with memos listed.
C26_Witness ==
    \E t \in Tasks :
        /\ vpc[t] = "vdone" /\ vop[t] = "saveCurrentMemo" /\ vret[t] = "false"
        /\ vm[vview[t]].context
        /\ vm[vview[t]].memos # <<>>
        /\ vm[vview[t]].searchKeyword # <<>>

\* ---- C27: in loadInitialData the list query is issued only when the font
\* sizes' load has settled and titleFontSize and contentFontSize have been
\* assigned what it returned, so the two are never in flight together; and
\* when loadInitialData completes isLoading is false.
C27_InitialLoadsFontsThenNotes ==
    [][ \A t \in Tasks :
          vop[t] = "loadInitialData" =>
              LET v == vview[t]
              IN  /\ (vpc[t] = "fonts" /\ vpc'[t] # "fonts") =>
                        /\ pc[t] = "done" /\ op[t] = "loadFontSizes" /\ ret[t].kind = "ok"
                        /\ vpc'[t] = "fontsLoaded" /\ pc'[t] = "idle"
                        /\ vm'[v].titleFontSize = ret[t].sizes[1]
                        /\ vm'[v].contentFontSize = ret[t].sizes[2]
                  /\ (op'[t] \in Reads /\ op[t] \notin Reads) =>
                        /\ vpc[t] = "fontsLoaded" /\ pc[t] = "idle"
                        /\ op'[t] = "queryMemosByTitle"
                  /\ (op'[t] = "loadFontSizes" /\ op[t] # "loadFontSizes") => vpc[t] = "idle"
                  /\ (vpc[t] # "vdone" /\ vpc'[t] = "vdone") =>
                        /\ vpc[t] = "refreshed"
                        /\ ~vm'[v].isLoading ]_vars

\* loadInitialData has completed, and the instance holds a title size other
\* than the default.
C27_Witness ==
    \E t \in Tasks :
        /\ vpc[t] = "vdone" /\ vop[t] = "loadInitialData" /\ vm[vview[t]].context
        /\ vm[vview[t]].titleFontSize # DEFAULT_TITLE_FONT_SIZE
        /\ ~vm[vview[t]].isLoading

\* k is s without its leading and trailing blanks.
IsTrimOf(k, s) ==
    /\ k = <<>> \/ (k[1] # " " /\ k[Len(k)] # " ")
    /\ \E i \in 0 .. Len(s) :
          /\ i + Len(k) <= Len(s)
          /\ k = SubSeq(s, i + 1, i + Len(k))
          /\ \A j \in (1 .. i) \cup ((i + Len(k) + 1) .. Len(s)) : s[j] = " "

\* ---- C28: when a searchMemos(keyword) that no other operation overlaps
\* completes, searchKeyword is the keyword without its leading and trailing
\* white space, memos is what queryMemosByTitle returned for that trimmed
\* keyword (when nothing failed: a result of that query on the store, every
\* row when the trimmed keyword is empty), memos is empty when the query
\* raised, and isLoading is false.
C28_SearchStoresTrimmedKeywordAndResult ==
    [][ \A t \in Tasks :
          (vop[t] = "searchMemos" /\ vpc[t] = "query" /\ vpc'[t] # "query") =>
              LET v == vview[t]
                  k == vm'[v].searchKeyword
              IN  /\ vpc'[t] = "vdone" /\ vret'[t] = "void"
                  /\ IsTrimOf(k, vloc[t].keyword)
                  /\ k = vm[v].searchKeyword /\ k = arg[t].keyword
                  /\ op[t] = "queryMemosByTitle"
                  /\ IF ret[t].kind = "raised"
                       THEN vm'[v].memos = <<>>
                       ELSE /\ vm'[v].memos = ret[t].memos
                            /\ fault[t] \subseteq {"close"} =>
                                 /\ vm'[v].memos \in QueryByTitleResults(k, table)
                                 /\ k = <<>> => ListsAll(vm'[v].memos, table)
                  /\ ~vm'[v].isLoading ]_vars

\* searchMemos(" a") has completed: the keyword stored is "a", and memos holds
\* the one of two stored notes whose title matches.
C28_Witness ==
    \E t \in Tasks :
        /\ vpc[t] = "vdone" /\ vop[t] = "searchMemos" /\ vm[vview[t]].context
        /\ vloc[t].keyword = <<" ", "a">>
        /\ vm[vview[t]].searchKeyword = <<"a">>
        /\ Len(vm[vview[t]].memos) = 1 /\ Cardinality(table) = 2

\* The callee under task t has settled after its handle could not be obtained.
HandleFailed(t) == pc[t] = "done" /\ "open" \in fault[t]

\* ---- C29: no method of a bound view model (loadInitialData, searchMemos,
\* loadMemoById, saveCurrentMemo, deleteMemo, loadFontSizes, saveFontSizes)
\* raises to its caller, also when the storage handle or the preference handle
\* cannot be obtained: searchMemos then leaves memos empty, loadMemoById
\* leaves currentMemo null, saveCurrentMemo returns false, deleteMemo leaves
\* memos as they were, and isLoading is false when the method completes.
C29_BoundMethodsNeverRaise ==
    [][ \A t \in Tasks :
          (vop[t] # "none" /\ vpc[t] # "vdone" /\ vpc'[t] # vpc[t]) =>
              LET v == vview[t]
              IN  /\ vpc'[t] = "vdone" =>
                        /\ vret'[t] = (IF vop[t] = "saveCurrentMemo"
                                         THEN (IF vpc[t] = "refreshed" THEN "true" ELSE "false")
                                         ELSE "void")
                        /\ ~vm'[v].isLoading
                  /\ HandleFailed(t) =>
                        /\ vpc[t] = "query" => vm'[v].memos = <<>>
                        /\ vpc[t] = "byId" => vm'[v].currentMemo = <<>> /\ vpc'[t] = "vdone"
                        /\ vpc[t] = "write" =>
                              vpc'[t] = "vdone" /\ vm'[v].memos = vm[v].memos
                        /\ vpc[t] = "fonts" =>
                              vpc'[t] = (IF vop[t] = "loadInitialData"
                                           THEN "fontsLoaded" ELSE "vdone") ]_vars

\* saveCurrentMemo has returned false after the store could not be opened.
C29_Witness ==
    \E t \in Tasks :
        /\ vpc[t] = "vdone" /\ vop[t] = "saveCurrentMemo" /\ vret[t] = "false"
        /\ vm[vview[t]].context
        /\ rdbStore = null /\ ~tableExists

\* No searchMemos is under way on instance v.
NoSearchUnderWay(v) ==
    \A u \in Tasks : vview[u] = v => vpc[u] \in {"idle", "vdone"}

\* ---- C30 (as claimed): when searchMemos calls on one view model overlap and
\* the store is not written meanwhile, then once the last of them has
\* completed (its query not having failed) memos is a result of the list
\* query for the stored searchKeyword, the keyword of the search started
\* last, in whatever order the queries settle.
C30_LastStartedSearchWins ==
    [][ \A t \in Tasks :
          ( /\ vop[t] = "searchMemos" /\ vpc[t] = "query" /\ vpc'[t] = "vdone"
            /\ ret[t].kind = "ok" /\ fault[t] \subseteq {"close"}
            /\ NoSearchUnderWay(vview[t])' ) =>
              vm'[vview[t]].memos
                  \in QueryByTitleResults(vm'[vview[t]].searchKeyword, table) ]_vars

\* The methods that set isLoading.
LoadingMethods ==
    {"loadInitialData", "searchMemos", "loadMemoById", "saveCurrentMemo", "deleteMemo"}

\* A method that sets isLoading has started on instance v and not completed.
UnderWay(v) ==
    \E t \in Tasks :
        vview[t] = v /\ vop[t] \in LoadingMethods /\ vpc[t] \notin {"idle", "vdone"}

\* ---- C31 (as claimed): on a bound view model isLoading is true in every
\* state in which loadInitialData, searchMemos, loadMemoById, saveCurrentMemo
\* or deleteMemo has started and not yet completed, also while two of them
\* overlap.
C31_LoadingWhileAnyUnderWay ==
    \A v \in Views : (vm[v].context /\ UnderWay(v)) => vm[v].isLoading

\* ---- C32 (as claimed): a saveFontSizes that fails at its first put, its
\* second put or its flush leaves the values as readers see them: a
\* loadFontSizes after it returns the pair it would have returned before the
\* save, never one new and one old value.
C32_FailedSaveLeavesValues ==
    \A t \in Tasks :
        ( /\ Ended(t) /\ op[t] = "saveFontSizes"
          /\ fault[t] \cap {"putTitle", "putContent", "flush"} # {} ) =>
            << StoredOr(KEY_TITLE_FONT_SIZE, DEFAULT_TITLE_FONT_SIZE),
               StoredOr(KEY_CONTENT_FONT_SIZE, DEFAULT_CONTENT_FONT_SIZE) >> = arg[t].before

\* The instance on which task t runs a saveCurrentMemo or deleteMemo in this
\* step (0: none) -- the call itself, a step of the write or of the refresh
\* beneath it, its settlements, its return.
MutatedInStep(t) ==
    IF <<vpc[t], pc[t]>> = <<vpc'[t], pc'[t]>> THEN 0
    ELSE IF Mutates(t) THEN vview[t]
    ELSE IF vop'[t] \in {"saveCurrentMemo", "deleteMemo"} THEN vview'[t]
    ELSE 0

\* ---- C33: with two view-model instances over one store (the list page's and
\* the edit page's), no step of a saveCurrentMemo or deleteMemo running on one
\* instance -- its write, its refresh, its return -- changes the other
\* instance's memos, searchKeyword or currentMemo.  (The other instance's
\* memos can then hold a note the store no longer has: C33_Witness.)
C33_MutationLeavesOtherInstance ==
    [][ \A t \in Tasks, w \in Views :
          (MutatedInStep(t) \notin {0, w}) =>
              /\ vm'[w].memos = vm[w].memos
              /\ vm'[w].searchKeyword = vm[w].searchKeyword
              /\ vm'[w].currentMemo = vm[w].currentMemo ]_vars

\* A saveCurrentMemo or deleteMemo on one instance has succeeded, refreshed
\* and completed, and the other instance, bound, holds memos that are not rows
\* of the store and not what its own search would give now.
C33_Witness ==
    \E t \in Tasks, w \in Views :
        /\ Mutates(t) /\ vpc[t] = "vdone" /\ vloc[t].success
        /\ vview[t] # w /\ vm[w].context
        /\ vm[w].memos # <<>>
        /\ ~FromTable(vm[w].memos, table)
        /\ vm[w].memos \notin QueryByTitleResults(vm[w].searchKeyword, table)

\* ------------------------------------------------------------ specifications
\* The storage handle provider alone, under concurrent callers.
NextRdb == \E t \in Tasks : CallGetRdbStore(t) \/ OpenSucceeds(t) \/ OpenFails(t) \/ Return(t)

SpecRdb == Init /\ [][NextRdb]_vars

\* The data-access object over the store: its calls and the opens beneath them
\* (every reading of the clock is an input of the step that reads it).
Next ==
    \E t \in DaoTasks :
         \/ CallAddMemo(t) \/ CallQueryAllMemos(t) \/ CallQueryMemosByTitle(t)
         \/ CallQueryMemoById(t) \/ CallUpdateMemo(t) \/ CallDeleteMemo(t)
         \/ OpenSucceeds(t) \/ OpenFails(t)
         \/ ExecInsert(t) \/ ExecQuery(t) \/ ExecQueryById(t) \/ CloseSettles(t)
         \/ ExecUpdate(t) \/ ExecDelete(t)
         \/ Return(t)

Spec == Init /\ [][Next]_vars

\* Notes added to an empty store and listed, by callers that may overlap.
NextRoundTrip ==
    \E t \in ListTasks :
         \/ CallAddNewMemo(t) \/ CallQueryAllMemos(t)
         \/ OpenSucceeds(t) \/ OpenFails(t)
         \/ ExecInsert(t) \/ ExecQuery(t) \/ CloseSettles(t)
         \/ Return(t)

SpecRoundTrip == Init /\ [][NextRoundTrip]_vars

\* The font-size preferences, under concurrent callers.
NextPref ==
    \E t \in PrefTasks :
        \/ CallSaveFontSizes(t) \/ CallLoadFontSizes(t)
        \/ PrefOpenSucceeds(t) \/ PrefOpenFails(t)
        \/ PutTitle(t) \/ PutContent(t) \/ Flush(t)
        \/ GetTitle(t) \/ GetContent(t)
        \/ Return(t)

SpecPref == Init /\ [][NextPref]_vars

\* The font-size preferences under one caller, each save keeping what readers
\* got when it started.
NextPrefNoting ==
    \E t \in DaoTasks :
        \/ CallSaveFontSizesNoting(t) \/ CallLoadFontSizes(t)
        \/ PrefOpenSucceeds(t) \/ PrefOpenFails(t)
        \/ PutTitle(t) \/ PutContent(t) \/ Flush(t)
        \/ GetTitle(t) \/ GetContent(t)
        \/ Return(t)

SpecPrefNoting == Init /\ [][NextPrefNoting]_vars

\* View models as constructed, before initialize: every method, on either
\* instance, by callers that may overlap.
NextFresh ==
    \E t \in Tasks :
        \/ \E v \in Views :
             \/ LoadInitialData(t, v) \/ SearchMemos(t, v) \/ LoadMemoById(t, v)
             \/ SaveCurrentMemo(t, v) \/ DeleteMemo(t, v)
             \/ LoadFontSizes(t, v) \/ SaveFontSizes(t, v)
        \/ ViewReturn(t)

SpecFresh == Init /\ [][NextFresh]_vars

\* One view model, one method at a time.
ViewTasks == {1}
OneView == {1}

\* The steps of MemoDao under a view model's method.
StoreBeneath(t) ==
    \/ OpenSucceeds(t) \/ OpenFails(t)
    \/ ExecInsert(t) \/ ExecQuery(t) \/ ExecQueryById(t) \/ CloseSettles(t)
    \/ ExecUpdate(t) \/ ExecDelete(t)

\* The steps of PreferencesHelper under a view model's method.
PrefBeneath(t) ==
    \/ PrefOpenSucceeds(t) \/ PrefOpenFails(t)
    \/ PutTitle(t) \/ PutContent(t) \/ Flush(t)
    \/ GetTitle(t) \/ GetContent(t)

\* The view model's methods over the notes: search, load, save, delete.
NextView ==
    \/ \E v \in OneView : Initialize(v) \/ PrepareNewMemo(v)
    \/ \E t \in ViewTasks, v \in OneView :
         \/ SearchMemos(t, v) \/ LoadMemoById(t, v) \/ SaveCurrentMemo(t, v)
         \/ DeleteMemo(t, v)
    \/ \E t \in ViewTasks :
         \/ StoreBeneath(t)
         \/ SearchSettles(t) \/ Refreshed(t) \/ LoadByIdSettles(t) \/ WriteSettles(t)
         \/ ViewReturn(t)

SpecView == Init /\ [][NextView]_vars

\* The two pages' instances: each page constructs its own MemoViewModel.
ListPage == 1
EditPage == 2

\* The edit page saves a first note, or the note it has loaded.
FirstNote == HasStoredMemo(vm[EditPage]) \/ nextId = 1

\* The list page and the edit page over one store, each calling on its own
\* instance what its code calls: the list page searchMemos and deleteMemo, the
\* edit page prepareNewMemo, loadMemoById and saveCurrentMemo.
NextTwoViews ==
    \/ \E v \in Views : Initialize(v)
    \/ PrepareNewMemo(EditPage)
    \/ \E t \in ViewTasks :
         \/ SearchMemos(t, ListPage) \/ DeleteMemo(t, ListPage)
         \/ LoadMemoById(t, EditPage)
         \/ (FirstNote /\ SaveCurrentMemo(t, EditPage))
         \/ StoreBeneath(t)
         \/ SearchSettles(t) \/ Refreshed(t) \/ LoadByIdSettles(t) \/ WriteSettles(t)
         \/ ViewReturn(t)

SpecTwoViews == Init /\ [][NextTwoViews]_vars

\* The view model's methods over the font sizes, and loadInitialData.
NextViewFonts ==
    \/ \E v \in OneView : Initialize(v) \/ SetFontSizes(v)
    \/ \E t \in ViewTasks, v \in OneView :
         \/ LoadFontSizes(t, v) \/ SaveFontSizes(t, v) \/ LoadInitialData(t, v)
    \/ \E t \in ViewTasks :
         \/ OpenSucceeds(t) \/ OpenFails(t) \/ ExecQuery(t) \/ CloseSettles(t)
         \/ PrefBeneath(t)
         \/ FontsLoaded(t) \/ InitialSearch(t) \/ SearchSettles(t) \/ Refreshed(t)
         \/ FontsSaved(t)
         \/ ViewReturn(t)

SpecViewFonts == Init /\ [][NextViewFonts]_vars

\* A settled query of searchMemos whose continuation has not run yet.
Pending(u) == vpc[u] = "query" /\ pc[u] \in {"closing", "done"}
Quiet == \A u \in Tasks : ~Pending(u)

\* Searches on one view model by callers that may overlap, as the list page
\* starts one on every keystroke, over a store filled before the page binds
\* its view model and not written afterwards.  The continuation of a settled
\* query runs before anything else does: no event is taken and no other
\* promise settles while one is pending.  Which of two queries in flight
\* settles first is the platform's choice.
NextSearches ==
    \/ \E t \in ListTasks :
         \/ (Quiet /\ ~vm[1].context /\ vpc[t] = "idle" /\ CallAddNewMemo(t))
         \/ (Quiet /\ ExecInsert(t))
         \/ (Quiet /\ vpc[t] = "idle" /\ Return(t))
    \/ \E v \in OneView : (\A t \in Tasks : pc[t] = "idle") /\ Initialize(v)
    \/ \E t \in ListTasks :
         \/ \E v \in OneView : Quiet /\ SearchMemos(t, v)
         \/ (Quiet /\ OpenSucceeds(t))
         \/ (Quiet /\ OpenFails(t))
         \/ (Quiet /\ ExecQuery(t))
         \/ (Quiet /\ ViewReturn(t))
         \/ CloseSettles(t) \/ SearchSettles(t)

SpecSearches == Init /\ [][NextSearches]_vars

\* Every method of the view model, over the store and the preferences.
NextViewAll ==
    \/ \E v \in OneView : Initialize(v)
    \/ \E t \in ViewTasks, v \in OneView :
         \/ LoadInitialData(t, v) \/ SearchMemos(t, v) \/ LoadMemoById(t, v)
         \/ SaveCurrentMemo(t, v) \/ DeleteMemo(t, v)
         \/ LoadFontSizes(t, v) \/ SaveFontSizes(t, v)
    \/ \E t \in ViewTasks :
         \/ StoreBeneath(t) \/ PrefBeneath(t)
         \/ SearchSettles(t) \/ Refreshed(t) \/ LoadByIdSettles(t) \/ WriteSettles(t)
         \/ FontsLoaded(t) \/ InitialSearch(t) \/ FontsSaved(t)
         \/ ViewReturn(t)

SpecViewAll == Init /\ [][NextViewAll]_vars
====
